---- MODULE Spec2Model ----
(***************************************************************************)
(* Model of lib/multiply_const_v.cc: the multiply_const_generic<type>      *)
(* block, its two volk work adapters and the eight factory functions.      *)
(*                                                                         *)
(* Number representation.  float and double values are kept as an integer  *)
(* count of halves (5 stands for 2.5); every value used is exactly         *)
(* representable in float32, so double -> float is exact.  Integer native  *)
(* values are plain integers of their C++ width.  A complex value is a     *)
(* record [re, im].                                                        *)
(***************************************************************************)
EXTENDS Integers, Sequences, FiniteSets, TLC

\* Largest vector length an instance is constructed with.
MaxVlen == 2
\* Largest number of elements (noutput_items * vlen) the scheduler hands to work.
MaxBuf == 4

VARIABLES
    type,                 \* template parameter of multiply_const_generic
    alignment,            \* what volk_get_alignment() reports on this machine
    itemsize,             \* item size of the io signatures, in bytes
    output_multiple,      \* gr_block's output multiple
    output_multiple_set,  \* whether set_output_multiple was called
    _volk_work,           \* the bound work adapter, or NoVolk
    _val,                 \* std::vector<type>
    _original_val,        \* std::vector<std::complex<double> >
    call                  \* the most recent call on the block and what it gave

vars == <<type, alignment, itemsize, output_multiple, output_multiple_set,
          _volk_work, _val, _original_val, call>>

-----------------------------------------------------------------------------
(* Element types *)

Types == {"fc32", "f32", "sc32", "sc16", "sc8", "s32", "s16", "s8"}

NoVolk == "none"

IsComplex(t) == t \in {"fc32", "sc32", "sc16", "sc8"}

IsFloat(t) == t \in {"fc32", "f32"}

\* sizeof(type)
SizeOf(t) ==
    CASE t = "fc32" -> 8
      [] t = "f32"  -> 4
      [] t = "sc32" -> 8
      [] t = "sc16" -> 4
      [] t = "sc8"  -> 2
      [] t = "s32"  -> 4
      [] t = "s16"  -> 2
      [] t = "s8"   -> 1

\* width in bits of the scalar an integer element type is made of
Bits(t) ==
    CASE t \in {"sc32", "s32"} -> 32
      [] t \in {"sc16", "s16"} -> 16
      [] t \in {"sc8", "s8"}   -> 8

Max(a, b) == IF a >= b THEN a ELSE b

\* two's complement value of x in a signed integer of the given width
Wrap(x, bits) ==
    LET m == 2 ^ bits
        r == x % m
    IN  IF r >= 2 ^ (bits - 1) THEN r - m ELSE r

\* halves -> integer, rounding toward zero
TruncHalves(h) == IF h >= 0 THEN h \div 2 ELSE -((-h) \div 2)

\* product of two real scalars of element type t
ScalarMul(t, a, b) ==
    IF IsFloat(t) THEN (a * b) \div 2 ELSE a * b

\* a scalar result stored back into an element of type t: 8 and 16 bit results
\* are computed in int and narrowed; a 32 bit result is the int itself (a product
\* outside int32_t is undefined, and the inputs below stay inside it)
Store(t, x) ==
    IF IsFloat(t) \/ Bits(t) = 32 THEN x ELSE Wrap(x, Bits(t))

\* in[i] * val for two elements of type t
Mul(t, a, b) ==
    IF IsComplex(t)
    THEN [re |-> Store(t, ScalarMul(t, a.re, b.re) - ScalarMul(t, a.im, b.im)),
          im |-> Store(t, ScalarMul(t, a.re, b.im) + ScalarMul(t, a.im, b.re))]
    ELSE Store(t, ScalarMul(t, a, b))

-----------------------------------------------------------------------------
(* Conversions between std::complex<double> and the element type.  They    *)
(* live in the block's header, which this file only includes.              *)

\* gr_complex_double_to_num(in, out): narrow a complex double to type t
gr_complex_double_to_num(t, c) ==
    IF IsFloat(t)
    THEN IF IsComplex(t) THEN [re |-> c.re, im |-> c.im] ELSE c.re
    ELSE IF IsComplex(t)
         THEN [re |-> TruncHalves(c.re), im |-> TruncHalves(c.im)]
         ELSE TruncHalves(c.re)

\* gr_num_to_complex_double(x): widen an element of type t to a complex double
gr_num_to_complex_double(t, x) ==
    IF IsFloat(t)
    THEN IF IsComplex(t) THEN [re |-> x.re, im |-> x.im] ELSE [re |-> x, im |-> 0]
    ELSE IF IsComplex(t)
         THEN [re |-> 2 * x.re, im |-> 2 * x.im]
         ELSE [re |-> 2 * x, im |-> 0]

-----------------------------------------------------------------------------
(* Inputs the environment supplies *)

\* complex doubles handed to set_const: 2.5 + 1.0i and -1.5
ConstSamples == {[re |-> 5, im |-> 2], [re |-> -3, im |-> 0]}

\* elements handed to the factories
VecSamples(t) == {gr_complex_double_to_num(t, c) : c \in ConstSamples}

\* samples in the input buffer; the integer products wrap for 8 and 16 bit
\* elements and stay inside int32_t for 32 bit elements; float samples are
\* whole numbers, so that every product is an exact count of halves
InSamples(t) ==
    CASE t = "fc32" -> <<[re |-> 2, im |-> 0], [re |-> 0, im |-> 2], [re |-> -6, im |-> 4]>>
      [] t = "f32"  -> <<2, -6, 8>>
      [] t = "sc32" -> <<[re |-> 70000, im |-> 1], [re |-> -3, im |-> 2], [re |-> 0, im |-> 1]>>
      [] t = "sc16" -> <<[re |-> 20000, im |-> 1], [re |-> -3, im |-> 2], [re |-> 0, im |-> 1]>>
      [] t = "sc8"  -> <<[re |-> 100, im |-> 1], [re |-> -3, im |-> 2], [re |-> 0, im |-> 1]>>
      [] t = "s32"  -> <<70000, -3, 1>>
      [] t = "s16"  -> <<20000, -3, 1>>
      [] t = "s8"   -> <<100, -3, 1>>

\* what an output buffer element holds before work writes it
Stale(t) == IF IsComplex(t) THEN [re |-> 99, im |-> 99] ELSE 99

\* values volk_get_alignment() may report
Alignments == {1, 16}

SeqsOf(S, n) == [1..n -> S]

\* buffers the scheduler hands to work for n elements: the input buffer runs
\* through the samples from any starting point, the output buffer has one
\* element of room after the requested run
InBuffers(t, n) ==
    LET S == InSamples(t)
    IN  {[k \in 1..n |-> S[((k + p) % Len(S)) + 1]] : p \in 1..Len(S)}

OutBuffer(t, n) == [k \in 1..(n + 1) |-> Stale(t)]

\* sequences a caller passes to set_const
SetArgs == UNION {SeqsOf(ConstSamples, n) : n \in 0..(MaxVlen + 1)}

-----------------------------------------------------------------------------
(* The volk work adapters *)

\* volk_32fc_s32fc_multiply_32fc_a / volk_32f_s32f_multiply_32f_a:
\* cVector[k] = aVector[k] * scalar for the first num_points elements
volk_multiply(t, cVector, aVector, scalar, num_points) ==
    [k \in 1..Len(cVector) |->
        IF k <= num_points THEN Mul(t, aVector[k], scalar) ELSE cVector[k]]

mult_fc32_work(noutput_items, input_items, output_items, val) ==
    LET scalar == val[1]
    IN  [out |-> volk_multiply("fc32", output_items, input_items, scalar, noutput_items),
         ret |-> noutput_items]

\* mult_f32_work handing volk one element too few
mult_f32_work_short(noutput_items, input_items, output_items, val) ==
    LET scalar == val[1]
    IN  [out |-> volk_multiply("f32", output_items, input_items, scalar, noutput_items - 1),
         ret |-> noutput_items]

mult_f32_work(noutput_items, input_items, output_items, val) ==
    LET scalar == val[1]
    IN  [out |-> volk_multiply("f32", output_items, input_items, scalar, noutput_items),
         ret |-> noutput_items]

\* a call through the boost::function _volk_work
volk_work_call(f, noutput_items, input_items, output_items, val) ==
    IF f = "mult_fc32_work"
    THEN mult_fc32_work(noutput_items, input_items, output_items, val)
    ELSE mult_f32_work(noutput_items, input_items, output_items, val)

-----------------------------------------------------------------------------
(* multiply_const_generic<type> *)

\* the loops with the general case multiplying by the first constant only
generic_loops_first(t, val, noutput_items, input_items, output_items) ==
    LET n_nums == noutput_items * Len(val)
    IN  [k \in 1..Len(output_items) |->
            IF k <= n_nums THEN Mul(t, input_items[k], val[1]) ELSE output_items[k]]

\* the two loops of work() that run when no adapter is bound
generic_loops(t, val, noutput_items, input_items, output_items) ==
    LET n_nums == noutput_items * Len(val)
    IN  IF Len(val) = 1
        THEN LET v == val[1]
             IN  [k \in 1..Len(output_items) |->
                    IF k <= n_nums THEN Mul(t, input_items[k], v)
                                   ELSE output_items[k]]
        ELSE [k \in 1..Len(output_items) |->
                IF k <= n_nums
                THEN Mul(t, input_items[k], val[((k - 1) % Len(val)) + 1])
                ELSE output_items[k]]

\* work returning what the adapter returned
work_adapter_ret(t, volk, val, noutput_items, input_items, output_items) ==
    IF volk # NoVolk
    THEN LET r == volk_work_call(volk, noutput_items * Len(val),
                                 input_items, output_items, val)
         IN  [out |-> r.out, ret |-> r.ret, exc |-> "none"]
    ELSE [out |-> generic_loops(t, val, noutput_items, input_items, output_items),
          ret |-> noutput_items, exc |-> "none"]

\* work(noutput_items, input_items, output_items)
work(t, volk, val, noutput_items, input_items, output_items) ==
    IF volk # NoVolk
    THEN LET r == volk_work_call(volk, noutput_items * Len(val),
                                 input_items, output_items, val)
         IN  [out |-> r.out, ret |-> noutput_items, exc |-> "none"]
    ELSE [out |-> generic_loops(t, val, noutput_items, input_items, output_items),
          ret |-> noutput_items, exc |-> "none"]

\* _set_const converting into _val before it checks the length
_set_const_convert_first(t, cur_val, val) ==
    LET conv == [i \in 1..Len(cur_val) |->
                    IF i <= Len(val) THEN gr_complex_double_to_num(t, val[i])
                                     ELSE cur_val[i]]
    IN  IF Len(val) # Len(cur_val)
        THEN [_original_val |-> val, _val |-> conv, exc |-> "invalid_argument"]
        ELSE [_original_val |-> val, _val |-> conv, exc |-> "none"]

\* _set_const(val): the fields after the call and the exception it raised
_set_const(t, cur_val, val) ==
    IF Len(val) # Len(cur_val)
    THEN [_original_val |-> val, _val |-> cur_val, exc |-> "invalid_argument"]
    ELSE [_original_val |-> val,
          _val |-> [i \in 1..Len(val) |-> gr_complex_double_to_num(t, val[i])],
          exc |-> "none"]

\* get_const returning a reference to _original_val
get_const_by_ref(original_val) == [ref |-> TRUE, v |-> original_val]

\* get_const(): the vector is returned by value
get_const(original_val) == [ref |-> FALSE, v |-> original_val]

\* multiply_const_v::set_const(vec) of the header: widen, then _set_const
set_const(t, cur_val, vec) ==
    _set_const(t, cur_val, [i \in 1..Len(vec) |-> gr_num_to_complex_double(t, vec[i])])

\* the constructor without the std::max(1, ...)
multiply_const_generic_no_max(t, vec, volk, align) ==
    LET resized == [i \in 1..Len(vec) |-> gr_complex_double_to_num(t, [re |-> 0, im |-> 0])]
        s == set_const(t, resized, vec)
        alignment_multiple == align \div SizeOf(t)
    IN  [itemsize |-> SizeOf(t) * Len(vec),
         _volk_work |-> volk,
         _val |-> s._val,
         _original_val |-> s._original_val,
         output_multiple_set |-> (volk # NoVolk),
         output_multiple |-> IF volk # NoVolk THEN alignment_multiple ELSE 1]

\* the constructor: io signatures, _val.resize, set_const, set_output_multiple
multiply_const_generic(t, vec, volk, align) ==
    LET resized == [i \in 1..Len(vec) |-> gr_complex_double_to_num(t, [re |-> 0, im |-> 0])]
        s == set_const(t, resized, vec)
        alignment_multiple == align \div SizeOf(t)
    IN  [itemsize |-> SizeOf(t) * Len(vec),
         _volk_work |-> volk,
         _val |-> s._val,
         _original_val |-> s._original_val,
         output_multiple_set |-> (volk # NoVolk),
         output_multiple |-> IF volk # NoVolk THEN Max(1, alignment_multiple) ELSE 1]

\* the adapter each make_<suffix> factory passes to the constructor
factory_volk_work(t) ==
    CASE t = "fc32" -> "mult_fc32_work"
      [] t = "f32"  -> "mult_f32_work"
      [] OTHER      -> NoVolk

-----------------------------------------------------------------------------
(* The state machine *)

Init ==
    \E t \in Types, n \in 1..MaxVlen, a \in Alignments :
      \E vec \in SeqsOf(VecSamples(t), n) :
        LET b == multiply_const_generic(t, vec, factory_volk_work(t), a)
        IN  /\ type = t
            /\ alignment = a
            /\ itemsize = b.itemsize
            /\ output_multiple = b.output_multiple
            /\ output_multiple_set = b.output_multiple_set
            /\ _volk_work = b._volk_work
            /\ _val = b._val
            /\ _original_val = b._original_val
            /\ call = [op |-> "make", vec |-> vec]

\* the scheduler calls work with buffers of noutput_items items
Work ==
    \E n \in 0..MaxBuf :
      /\ n * Len(_val) <= MaxBuf
      /\ \E input \in InBuffers(type, n * Len(_val)) :
           LET output == OutBuffer(type, n * Len(_val))
               r == work(type, _volk_work, _val, n, input, output)
           IN  call' = [op |-> "work", noutput_items |-> n, input_items |-> input,
                        output_items |-> r.out, ret |-> r.ret, exc |-> r.exc]
      /\ UNCHANGED <<type, alignment, itemsize, output_multiple,
                     output_multiple_set, _volk_work, _val, _original_val>>

\* a caller replaces the constant; the record of the call keeps the _val the
\* block had when the call was made
SetConst ==
    \E v \in SetArgs :
      LET r == _set_const(type, _val, v)
      IN  /\ _val' = r._val
          /\ _original_val' = r._original_val
          /\ call' = [op |-> "set_const", val |-> v, exc |-> r.exc,
                       val_before |-> _val]
          /\ UNCHANGED <<type, alignment, itemsize, output_multiple,
                         output_multiple_set, _volk_work>>

\* a caller reads the constant
GetConst ==
    /\ call' = [op |-> "get_const", ret |-> get_const(_original_val)]
    /\ UNCHANGED <<type, alignment, itemsize, output_multiple,
                   output_multiple_set, _volk_work, _val, _original_val>>

\* the caller clears the vector get_const gave it
CallerClears ==
    /\ call.op = "get_const"
    /\ call' = [op |-> "caller_clear", ret |-> [ref |-> call.ret.ref, v |-> <<>>]]
    /\ _original_val' = IF call.ret.ref THEN <<>> ELSE _original_val
    /\ UNCHANGED <<type, alignment, itemsize, output_multiple,
                   output_multiple_set, _volk_work, _val>>

Next == Work \/ SetConst \/ GetConst \/ CallerClears

Spec == Init /\ [][Next]_vars

-----------------------------------------------------------------------------
(* Properties *)

\* the vector length the io signatures were built with
vlen == itemsize \div SizeOf(type)

Accelerated == {"fc32", "f32"}

\* every element of the requested run is the input element times the constant
\* at its position modulo the vector length
ModuloProduct ==
    \A k \in 0..(call.noutput_items * vlen - 1) :
        call.output_items[k + 1] =
            Mul(type, call.input_items[k + 1], _val[(k % vlen) + 1])

\* C1: a set_const with a sequence whose length is not vlen raises
\* invalid_argument, and get_const afterwards returns what it returned before
C1_FailedSetKeepsGetConst ==
    [][(call'.op = "set_const" /\ Len(call'.val) # vlen)
          => /\ call'.exc = "invalid_argument"
             /\ get_const(_original_val').v = get_const(_original_val).v]_vars

\* C2: for the six element types without an adapter, work writes
\* output[k] = input[k] * _val[k mod vlen] for every k below noutput_items * vlen
C2_ScalarPathModulo ==
    (call.op = "work" /\ type \notin Accelerated) => ModuloProduct

C2_Witness ==
    /\ call.op = "work"
    /\ type = "sc8"
    /\ vlen = 2
    /\ call.noutput_items = 2
    /\ _val[1] # _val[2]
    /\ call.output_items[3] # Stale(type)

\* C3: for every instance, the float and complex float ones with vlen > 1
\* included, work writes output[k] = input[k] * _val[k mod vlen]
C3_EveryInstanceModulo ==
    call.op = "work" => ModuloProduct

\* C4: in every reachable state _val is the conversion of _original_val,
\* position by position
C4_WorkingIsConvertedCanonical ==
    /\ Len(_val) = Len(_original_val)
    /\ \A i \in 1..Len(_val) :
          _val[i] = gr_complex_double_to_num(type, _original_val[i])

\* C5: in every reachable state _val and _original_val both have length vlen
C5_LengthsAreVlen ==
    /\ Len(_val) = vlen
    /\ Len(_original_val) = vlen

\* C6: get_const after a successful set_const(v) returns v itself, not the
\* narrowed values, and changing the returned vector leaves the stored one alone
C6_GetConstRoundTrip ==
    [][/\ (call'.op = "set_const" /\ call'.exc = "none")
            => get_const(_original_val').v = call'.val
       /\ (call'.op = "get_const" /\ call.op = "set_const" /\ call.exc = "none")
            => call'.ret.v = call.val
       /\ call'.op = "caller_clear" => _original_val' = _original_val]_vars

C6_Witness ==
    /\ call.op = "caller_clear"
    /\ type = "s8"
    /\ Len(_val) = Len(_original_val)
    /\ \E i \in 1..Len(_val) :
          gr_num_to_complex_double(type, _val[i]) # _original_val[i]

\* C7: work returns exactly the requested noutput_items, whatever the adapter
\* returned, and raises nothing
C7_WorkReturnsRequested ==
    call.op = "work" => (call.ret = call.noutput_items /\ call.exc = "none")

C7_Witness ==
    /\ call.op = "work"
    /\ _volk_work # NoVolk
    /\ Len(_val) = 2
    /\ Len(_original_val) # Len(_val)
    /\ volk_work_call(_volk_work, call.noutput_items * Len(_val), call.input_items,
                      OutBuffer(type, call.noutput_items * Len(_val)), _val).ret
          # call.ret

\* C8: for float and complex float instances with vlen = 1 the output written
\* through the adapter equals, element for element, what the vlen = 1 loop
\* writes for the same input and constant, over exactly noutput_items elements
C8_AdapterEqualsLoop ==
    (call.op = "work" /\ type \in Accelerated /\ vlen = 1)
        => call.output_items =
              generic_loops(type, _val, call.noutput_items, call.input_items,
                            OutBuffer(type, call.noutput_items))

C8_Witness ==
    /\ call.op = "work"
    /\ type = "f32"
    /\ _volk_work = "mult_f32_work"
    /\ vlen = 1
    /\ call.noutput_items = 3
    /\ call.output_items[3] # Stale(type)
    /\ call.output_items[4] = Stale(type)

C9_State ==
    /\ output_multiple_set <=> _volk_work # NoVolk
    /\ _volk_work # NoVolk <=> type \in Accelerated
    /\ output_multiple >= 1
    /\ output_multiple_set => output_multiple = Max(1, alignment \div SizeOf(type))

\* C9: an output multiple is declared exactly when an adapter is bound, which
\* is exactly for float and complex float; it is max(1, alignment div
\* sizeof(type)); neither it nor the binding changes under later calls
C9_OutputMultiple ==
    /\ []C9_State
    /\ [][/\ _volk_work' = _volk_work
          /\ output_multiple' = output_multiple
          /\ output_multiple_set' = output_multiple_set]_vars

C9_Witness ==
    /\ call.op = "work"
    /\ type = "fc32"
    /\ alignment < SizeOf(type)
    /\ output_multiple_set
    /\ output_multiple = 1

\* C10: a failed set_const leaves _val alone: every work call writes afterwards
\* what it would have written before, and a set_const of the right length
\* still succeeds
C10_FailedSetKeepsWork ==
    (call.op = "set_const" /\ call.exc = "invalid_argument")
        => /\ \A n \in 0..MaxBuf :
                n * vlen <= MaxBuf =>
                  \A input \in InBuffers(type, n * vlen) :
                      work(type, _volk_work, _val, n, input,
                              OutBuffer(type, n * vlen))
                        = work(type, _volk_work, call.val_before, n, input,
                               OutBuffer(type, n * vlen))
           /\ \A v \in SetArgs :
                Len(v) = vlen => _set_const(type, _val, v).exc = "none"

C10_Witness ==
    /\ call.op = "work"
    /\ call.noutput_items > 0
    /\ Len(_original_val) # Len(_val)
    /\ Len(_original_val) > 0
    /\ gr_complex_double_to_num(type, _original_val[1]) # _val[1]

====
